---------------------------- MODULE Spec2Model ----------------------------
(***************************************************************************)
(* State-machine model of app.py, the Streamlit chat assistant: the chat   *)
(* history kept in the session and in chat_memory.json, the upload         *)
(* directory, the knowledge lookups, the context assembly and the          *)
(* generation call.                                                        *)
(*                                                                         *)
(* Text is a sequence of one-character strings.  A character outside       *)
(* ASCII is written as the token "U+XXXX" and counts as one character.     *)
(***************************************************************************)
EXTENDS Integers, Sequences, FiniteSets, TLC

VARIABLES
    memory_file,    \* chat_memory.json: [exists, text]
    in_session,     \* "chat_history" in st.session_state
    chat_history,   \* st.session_state.chat_history
    upload_dir,     \* names of the files in uploaded_docs/
    last_save,      \* which handler wrote chat_memory.json last
    run             \* what the last script run computed and showed

vars == <<memory_file, in_session, chat_history, upload_dir, last_save, run>>

\* ------------------------------------------------------------------ text

\* Python's None, told apart from every text (also from the empty one).
None == <<"None">>

\* Python truthiness of an Optional[str].
Truthy(x) == x # None /\ x # << >>

Whitespace == {" ", "\n", "\t", "\r"}

RECURSIVE LeftEdge(_, _)
LeftEdge(s, i) ==
    IF i > Len(s) THEN i
    ELSE IF s[i] \in Whitespace THEN LeftEdge(s, i + 1) ELSE i

RECURSIVE RightEdge(_, _)
RightEdge(s, j) ==
    IF j < 1 THEN j
    ELSE IF s[j] \in Whitespace THEN RightEdge(s, j - 1) ELSE j

\* str.strip()
Strip(s) == SubSeq(s, LeftEdge(s, 1), RightEdge(s, Len(s)))

LowerOf ==
    [A |-> "a", B |-> "b", C |-> "c", D |-> "d", E |-> "e", F |-> "f",
     G |-> "g", H |-> "h", I |-> "i", J |-> "j", K |-> "k", L |-> "l",
     M |-> "m", N |-> "n", O |-> "o", P |-> "p", Q |-> "q", R |-> "r",
     S |-> "s", T |-> "t", U |-> "u", V |-> "v", W |-> "w", X |-> "x",
     Y |-> "y", Z |-> "z"]

LowerChar(c) == IF c \in DOMAIN LowerOf THEN LowerOf[c] ELSE c

\* str.lower()
Lower(s) == [i \in 1..Len(s) |-> LowerChar(s[i])]

\* q in t
Contains(t, q) ==
    \E i \in 1..(Len(t) - Len(q) + 1) :
        \A k \in 1..Len(q) : t[i + k - 1] = q[k]

\* s[:n]
Prefix(s, n) == SubSeq(s, 1, IF Len(s) < n THEN Len(s) ELSE n)

\* sep.join(parts)
RECURSIVE Join(_, _)
Join(sep, parts) ==
    IF parts = << >> THEN << >>
    ELSE IF Len(parts) = 1 THEN parts[1]
    ELSE parts[1] \o sep \o Join(sep, Tail(parts))

\* re.search(pattern, text, re.IGNORECASE) for a pattern of letters, digits,
\* spaces and ".": "." matches any character but a newline, every other
\* character matches itself in either case.
MatchesAt(pattern, text, i) ==
    \A k \in 1..Len(pattern) :
        IF pattern[k] = "."
        THEN text[i + k - 1] # "\n"
        ELSE LowerChar(pattern[k]) = LowerChar(text[i + k - 1])

re_search(pattern, text) ==
    \E i \in 1..(Len(text) - Len(pattern) + 1) : MatchesAt(pattern, text, i)

\* ------------------------------------------------------------------ JSON

RoleSystem == <<"s", "y", "s", "t", "e", "m">>
RoleUser == <<"u", "s", "e", "r">>
RoleAssistant == <<"a", "s", "s", "i", "s", "t", "a", "n", "t">>
KeyRole == <<"r", "o", "l", "e">>
KeyContent == <<"c", "o", "n", "t", "e", "n", "t">>

\* The characters json.dump writes as \uXXXX (ensure_ascii), with their
\* four hexadecimal digits.
UnicodeEscape ==
    [c \in {"U+26A0", "U+FE0F"} |->
        IF c = "U+26A0" THEN <<"2", "6", "a", "0">> ELSE <<"f", "e", "0", "f">>]

\* The control characters json.dump writes as a backslash and a letter.
ControlEscape ==
    [c \in {"\n", "\t", "\r"} |->
        IF c = "\n" THEN "n" ELSE IF c = "\t" THEN "t" ELSE "r"]

json_escape(c) ==
    IF c = "\"" THEN <<"\\", "\"">>
    ELSE IF c = "\\" THEN <<"\\", "\\">>
    ELSE IF c \in DOMAIN ControlEscape THEN <<"\\", ControlEscape[c]>>
    ELSE IF c \in DOMAIN UnicodeEscape THEN <<"\\", "u">> \o UnicodeEscape[c]
    ELSE <<c>>

\* parts[lo] \o ... \o parts[hi]
RECURSIVE Flatten(_, _, _)
Flatten(parts, lo, hi) ==
    IF lo > hi THEN << >>
    ELSE IF lo = hi THEN parts[lo]
    ELSE LET mid == (lo + hi) \div 2
         IN  Flatten(parts, lo, mid) \o Flatten(parts, mid + 1, hi)

json_string(s) ==
    <<"\"">> \o Flatten([i \in 1..Len(s) |-> json_escape(s[i])], 1, Len(s))
    \o <<"\"">>

json_object(m) ==
    <<" ", " ", "{", "\n", " ", " ", " ", " ">> \o json_string(KeyRole) \o <<":", " ">> \o json_string(m.role)
    \o <<",", "\n", " ", " ", " ", " ">> \o json_string(KeyContent) \o <<":", " ">>
    \o json_string(m.content) \o <<"\n", " ", " ", "}">>

\* json.dumps(chat_history, indent=2)
json_dump(history) ==
    IF history = << >> THEN <<"[", "]">>
    ELSE <<"[", "\n">>
         \o Join(<<",", "\n">>, [k \in 1..Len(history) |-> json_object(history[k])])
         \o <<"\n", "]">>

\* The number of consecutive backslashes that end at position j.
RECURSIVE BackslashRun(_, _)
BackslashRun(s, j) ==
    IF j >= 1 /\ s[j] = "\\" THEN 1 + BackslashRun(s, j - 1) ELSE 0

\* The elements of a set of numbers, ascending.
Ascending(S) ==
    [k \in 1..Cardinality(S) |->
        CHOOSE x \in S : Cardinality({y \in S : y < x}) = k - 1]

\* The text of a JSON string from the characters between its quotes: a
\* backslash that no backslash escapes starts an escape, the characters an
\* escape covers give nothing by themselves.
json_unescape(raw) ==
    LET Starts(p) == raw[p] = "\\" /\ BackslashRun(raw, p - 1) % 2 = 0
        Covered(p) ==
            \/ p > 1 /\ Starts(p - 1)
            \/ \E k \in 2..5 : p - k >= 1 /\ Starts(p - k) /\ raw[p - k + 1] = "u"
        Piece(p) ==
            IF Starts(p)
            THEN IF raw[p + 1] = "u"
                 THEN <<CHOOSE c \in DOMAIN UnicodeEscape :
                            UnicodeEscape[c] = SubSeq(raw, p + 2, p + 5)>>
                 ELSE IF \E c \in DOMAIN ControlEscape :
                             ControlEscape[c] = raw[p + 1]
                 THEN <<CHOOSE c \in DOMAIN ControlEscape :
                            ControlEscape[c] = raw[p + 1]>>
                 ELSE <<raw[p + 1]>>
            ELSE IF Covered(p) THEN << >>
            ELSE <<raw[p]>>
    IN  Flatten([p \in 1..Len(raw) |-> Piece(p)], 1, Len(raw))

\* json.loads(text) of a list of objects with string members "role" and
\* "content": the strings lie between successive unescaped quotes, the
\* objects between the braces outside the strings.
json_load(s) ==
    LET quotes == Ascending({j \in 1..Len(s) :
                                s[j] = "\"" /\ BackslashRun(s, j - 1) % 2 = 0})
        Outside(j) ==
            Cardinality({k \in 1..Len(quotes) : quotes[k] < j}) % 2 = 0
        opens == Ascending({j \in 1..Len(s) : s[j] = "{" /\ Outside(j)})
        closes == Ascending({j \in 1..Len(s) : s[j] = "}" /\ Outside(j)})
        StringAt(k) ==
            json_unescape(SubSeq(s, quotes[2 * k - 1] + 1, quotes[2 * k] - 1))
        Object(n) ==
            LET strings == Ascending({k \in 1..(Len(quotes) \div 2) :
                                         /\ opens[n] < quotes[2 * k - 1]
                                         /\ quotes[2 * k] < closes[n]})
                Member(key) ==
                    StringAt(strings[2 * (CHOOSE m \in 1..(Len(strings) \div 2) :
                                 StringAt(strings[2 * m - 1]) = key)])
            IN  [role |-> Member(KeyRole), content |-> Member(KeyContent)]
    IN  [n \in 1..Len(opens) |-> Object(n)]

\* ------------------------------------------------------- program constants

MAX_DOC_CHARS == 5000

MEMORY_ABSENT == [exists |-> FALSE, text |-> << >>]

\* chat_history's seed (lines 188-190)
DefaultSystemMessage ==
    [role |-> RoleSystem,
     content |-> <<"Y", "o", "u", " ", "a", "r", "e", " ", "a", " ", "s", "m", "a", "r", "t", " ",
    "A", "I", " ", "a", "s", "s", "i", "s", "t", "a", "n", "t", " ", "w", "i", "t",
    "h", " ", "a", "c", "c", "e", "s", "s", " ", "t", "o", " ", "d", "o", "c", "u",
    "m", "e", "n", "t", "s", ",", " ", "W", "i", "k", "i", "p", "e", "d", "i", "a",
    ",", " ", "a", "n", "d", " ", "r", "e", "a", "l", "-", "t", "i", "m", "e", " ",
    "n", "e", "w", "s", ".", " ", "Y", "o", "u", " ", "h", "a", "n", "d", "l", "e",
    " ", "q", "u", "e", "s", "t", "i", "o", "n", "s", " ", "l", "i", "k", "e", " ",
    "w", "h", "o", ",", " ", "w", "h", "a", "t", ",", " ", "w", "h", "e", "n", ",",
    " ", "h", "o", "w", " ", "m", "a", "n", "y", ",", " ", "h", "o", "w", " ", "l",
    "o", "n", "g", ",", " ", "t", "e", "l", "l", " ", "m", "e", " ", "h", "o", "w",
    ",", " ", "t", "e", "l", "l", " ", "m", "e", " ", "w", "h", "y", ",", " ", "e",
    "t", "c", ".">>]

\* ask_groq's system message (line 102)
GroqSystemMessage ==
    [role |-> RoleSystem,
     content |-> <<"Y", "o", "u", " ", "a", "r", "e", " ", "a", " ", "h", "e", "l", "p", "f", "u",
    "l", " ", "a", "s", "s", "i", "s", "t", "a", "n", "t", " ", "t", "h", "a", "t",
    " ", "a", "n", "s", "w", "e", "r", "s", " ", "b", "a", "s", "e", "d", " ", "o",
    "n", " ", "r", "e", "l", "e", "v", "a", "n", "t", " ", "d", "o", "c", "u", "m",
    "e", "n", "t", "s", ",", " ", "W", "i", "k", "i", "p", "e", "d", "i", "a", ",",
    " ", "a", "n", "d", " ", "n", "e", "w", "s", " ", "s", "o", "u", "r", "c", "e",
    "s", ".", " ", "D", "o", " ", "n", "o", "t", " ", "m", "i", "x", " ", "u", "n",
    "r", "e", "l", "a", "t", "e", "d", " ", "s", "o", "u", "r", "c", "e", "s", ".">>]

\* ask_groq's reply when the call fails (line 117)
NoResponse == <<"U+26A0", "U+FE0F", " ", "N", "o", " ", "r", "e", "s", "p", "o", "n", "s", "e">>

LabelWikipedia == <<"U+1F4DA", " ", "W", "i", "k", "i", "p", "e", "d", "i", "a", ":", "\n">>
LabelNewsAPI == <<"U+1F4E1", " ", "N", "e", "w", "s", "A", "P", "I", ":", "\n">>
LabelSerper == <<"U+1F310", " ", "S", "e", "r", "p", "e", "r", ":", "\n">>
LabelDocument == <<"U+1F4C4", " ", "D", "o", "c", "u", "m", "e", "n", "t", " ", "m", "a", "t", "c",
    "h", ":", "\n">>
BlockEnd == <<"\n", "\n">>
ContextHeader == <<"C", "o", "n", "t", "e", "x", "t", ":", "\n">>
QuestionHeader == <<"\n", "\n", "Q", "u", "e", "s", "t", "i", "o", "n", ":", " ">>
SelectAll == <<"A", "l", "l">>
ExtTxt == <<".", "t", "x", "t">>
ExtPdf == <<".", "p", "d", "f">>

\* ------------------------------------------------------------ persistence

\* load_memory()
load_memory(file) == IF file.exists THEN json_load(file.text) ELSE << >>

\* save_memory as it would be with the file opened in mode "a": the dump is
\* added after what the file holds.
save_memory_appending(history) ==
    [exists |-> TRUE, text |-> memory_file.text \o json_dump(history)]

\* save_memory(chat_history): open(MEMORY_FILE, "w") truncates the file.
save_memory(history) == [exists |-> TRUE, text |-> json_dump(history)]

\* ------------------------------------------------------ knowledge lookups

\* get_wikipedia_summary(query) on the responses r of the two requests:
\* r.search is "raise" (a request or its parsing raises), "empty" (no search
\* result) or "hit"; r.status and r.extract are the summary response, with
\* r.extract = None when the body has no "extract".
get_wikipedia_summary(query, r) ==
    IF r.search = "raise" THEN None
    ELSE IF r.search = "empty" THEN None
    ELSE IF r.status = 200
         THEN (IF r.extract = None THEN << >> ELSE r.extract)
         ELSE None

HeadlineLine(a) ==
    <<"-", " ">> \o a.title \o <<" ", "(">> \o a.source \o <<",", " ">>
    \o Prefix(a.publishedAt, 10) \o <<")">>

\* get_newsapi_headlines(query) on the response r
get_newsapi_headlines(query, r) ==
    IF r.raises THEN None
    ELSE LET articles == IF r.status = 200 THEN r.articles ELSE << >>
         IN  IF articles # << >>
             THEN Join(<<"\n">>,
                      [k \in 1..Len(articles) |-> HeadlineLine(articles[k])])
             ELSE None

ResultLines(x) ==
    <<"-", " ">> \o x.title \o <<"\n", " ", " ">> \o x.snippet \o <<"\n", " ", " ", "U+1F517", " ">> \o x.link

\* get_serper_results(query) on the response r
get_serper_results(query, r) ==
    IF r.raises THEN None
    ELSE LET items == Prefix(r.organic, 3)
         IN  Join(<<"\n">>, [k \in 1..Len(items) |-> ResultLines(items[k])])

\* translate_to_english(text) on the backend's reply r
translate_to_english(text, r) ==
    IF r.raises THEN text ELSE Strip(r.content)

\* ask_groq as it would be without the cut at MAX_DOC_CHARS.
ask_groq_untruncated(question, context, r) ==
    [messages |->
        <<GroqSystemMessage,
          [role |-> RoleUser,
           content |->
               IF Truthy(context)
               THEN ContextHeader \o context \o QuestionHeader \o question
               ELSE question]>>,
     answer |-> IF r.raises THEN NoResponse ELSE r.content]

\* ask_groq(question, context) on the backend's reply r: the messages of
\* the request and the answer returned.
ask_groq(question, context, r) ==
    [messages |->
        <<GroqSystemMessage,
          [role |-> RoleUser,
           content |->
               IF Truthy(context)
               THEN ContextHeader \o Prefix(context, MAX_DOC_CHARS)
                    \o QuestionHeader \o question
               ELSE question]>>,
     answer |-> IF r.raises THEN NoResponse ELSE r.content]

\* -------------------------------------------------------------- documents

\* The files a user can upload: readable is FALSE for a file whose read
\* raises (a .txt that is not UTF-8, a .pdf that fitz cannot open).
FileRefunds ==
    [name |-> <<"r", "e", "f", "u", "n", "d", "s", ".", "t", "x", "t">>, readable |-> TRUE,
     text |-> <<"R", "e", "f", "u", "n", "d", " ", "p", "o", "l", "i", "c", "y", ":", " ", "i",
    "t", "e", "m", "s", " ", "c", "a", "n", " ", "b", "e", " ", "r", "e", "t", "u",
    "r", "n", "e", "d", ".", "\n", "H", "o", "w", " ", "l", "o", "n", "g", " ", "d",
    "o", "e", "s", " ", "a", " ", "r", "e", "f", "u", "n", "d", " ", "t", "a", "k",
    "e", " ", "t", "o", " ", "a", "r", "r", "i", "v", "e", " ", "a", "t", " ", "t",
    "h", "e", " ", "b", "a", "n", "k", ":", " ", "5", " ", "d", "a", "y", "s", ".">>,
     pages |-> << >>]

FileShipping ==
    [name |-> <<"s", "h", "i", "p", "p", "i", "n", "g", ".", "p", "d", "f">>, readable |-> TRUE, text |-> << >>,
     pages |-> <<<<"S", "e", "c", "t", "i", "o", "n", " ", "3", "-", "1", ":", " ", "s", "h", "i",
    "p", "p", "i", "n", "g", " ", "t", "a", "k", "e", "s", " ", "5", " ", "d", "a",
    "y", "s", ".">>,
                 <<"S", "e", "c", "t", "i", "o", "n", " ", "3", "-", "2", ":", " ", "t", "r", "a",
    "c", "k", "i", "n", "g", ".">>>>]

FileLegacy ==
    [name |-> <<"l", "e", "g", "a", "c", "y", ".", "t", "x", "t">>, readable |-> FALSE, text |-> << >>,
     pages |-> << >>]

Files == {FileRefunds, FileShipping, FileLegacy}

FileNamed(name) == CHOOSE f \in Files : f.name = name

\* os.listdir(UPLOAD_DIR): the directory's names, in one fixed order (the
\* order the file system lists them in).
ListingOrder == <<FileLegacy.name, FileRefunds.name, FileShipping.name>>

listdir(dir) ==
    LET Keep(name) == name \in dir IN SelectSeq(ListingOrder, Keep)

EndsWith(s, suffix) ==
    /\ Len(s) >= Len(suffix)
    /\ SubSeq(s, Len(s) - Len(suffix) + 1, Len(s)) = suffix

\* What reading one file gives: [raised, value].
ReadTxt(name) ==
    LET f == FileNamed(name)
    IN  IF f.readable THEN [raised |-> FALSE, value |-> f.text]
        ELSE [raised |-> TRUE, value |-> << >>]

ReadPdf(name) ==
    LET f == FileNamed(name)
    IN  IF f.readable
        THEN [raised |-> FALSE, value |-> Join(<<"\n">>, f.pages)]
        ELSE [raised |-> TRUE, value |-> << >>]

\* get_all_documents(): [raised, value], the loop over the names from
\* position i on with the context built so far.
RECURSIVE AllDocumentsFrom(_, _, _)
AllDocumentsFrom(names, i, context) ==
    IF i > Len(names) THEN [raised |-> FALSE, value |-> context]
    ELSE IF EndsWith(names[i], ExtTxt)
    THEN LET d == ReadTxt(names[i])
         IN  IF d.raised THEN d
             ELSE AllDocumentsFrom(names, i + 1, context \o d.value \o <<"\n">>)
    ELSE IF EndsWith(names[i], ExtPdf)
    THEN LET d == ReadPdf(names[i])
         IN  IF d.raised THEN d
             ELSE AllDocumentsFrom(names, i + 1, context \o d.value \o <<"\n">>)
    ELSE AllDocumentsFrom(names, i + 1, context)

get_all_documents(dir) == AllDocumentsFrom(listdir(dir), 1, << >>)

\* get_document_context(filename): [raised, value]
get_document_context(filename) ==
    IF EndsWith(filename, ExtTxt) THEN ReadTxt(filename)
    ELSE IF EndsWith(filename, ExtPdf) THEN ReadPdf(filename)
    ELSE [raised |-> FALSE, value |-> << >>]

\* doc_files (line 165)
doc_files(dir) ==
    LET IsDoc(name) == EndsWith(name, ExtTxt) \/ EndsWith(name, ExtPdf)
    IN  SelectSeq(listdir(dir), IsDoc)

\* ----------------------------------------------------------------- bounds

\* A chat turn starts only while the history it extends has room.
MaxHistory == 3

\* The longest conversation persisted under SpecPersist.
MaxConvLen == 2

\* ----------------------------------------------------------------- inputs

QueryFrench == <<"p", "o", "l", "i", "t", "i", "q", "u", "e", " ", "d", "e", " ", "r", "e", "m",
    "b", "o", "u", "r", "s", "e", "m", "e", "n", "t">>
QueryRefund == <<"r", "e", "f", "u", "n", "d", " ", "p", "o", "l", "i", "c", "y">>
QueryLong == <<"H", "o", "w", " ", "l", "o", "n", "g", " ", "d", "o", "e", "s", " ", "a", " ",
    "r", "e", "f", "u", "n", "d", " ", "t", "a", "k", "e", " ", "t", "o", " ", "a",
    "r", "r", "i", "v", "e", " ", "a", "t", " ", "m", "y", " ", "b", "a", "n", "k">>
QuerySection == <<"s", "e", "c", "t", "i", "o", "n", " ", "3", ".", "1">>

ChatInputs == {QueryFrench, QueryLong}
Questions == {QueryRefund, QueryLong, QuerySection}

\* What the backend answers when it translates text.
EnglishOf(text) == IF text = QueryFrench THEN QueryRefund ELSE text

TranslationReplies(text) ==
    {[raises |-> TRUE, content |-> << >>],
     [raises |-> FALSE, content |-> <<" ">> \o EnglishOf(text) \o <<"\n">>],
     [raises |-> FALSE, content |-> << >>]}

Answer == <<"R", "e", "f", "u", "n", "d", "s", " ", "a", "r", "r", "i", "v", "e", " ", "w",
    "i", "t", "h", "i", "n", " ", "5", " ", "d", "a", "y", "s", ".">>

GenerationReplies ==
    {[raises |-> TRUE, content |-> << >>],
     [raises |-> FALSE, content |-> Answer]}

ShortExtract == <<"A", " ", "r", "e", "f", "u", "n", "d", " ", "i", "s", " ", "a", " ", "r", "e",
    "p", "a", "y", "m", "e", "n", "t", ".">>
LongExtract == [i \in 1..(MAX_DOC_CHARS + 1) |-> "x"]

WikiResponses ==
    {[search |-> "raise", status |-> 0, extract |-> None],
     [search |-> "empty", status |-> 0, extract |-> None],
     [search |-> "hit", status |-> 404, extract |-> None],
     [search |-> "hit", status |-> 200, extract |-> None],
     [search |-> "hit", status |-> 200, extract |-> ShortExtract],
     [search |-> "hit", status |-> 200, extract |-> LongExtract]}

Article1 ==
    [title |-> <<"R", "e", "f", "u", "n", "d", " ", "r", "u", "l", "e", "s", " ", "c", "h", "a",
    "n", "g", "e">>, source |-> <<"D", "a", "i", "l", "y">>,
     publishedAt |-> <<"2", "0", "2", "4", "-", "0", "5", "-", "0", "1", "T", "1", "0", ":", "0", "0",
    ":", "0", "0", "Z">>]
Article2 ==
    [title |-> <<"B", "a", "n", "k", "s", " ", "s", "p", "e", "e", "d", " ", "u", "p">>, source |-> <<"W", "i", "r", "e">>,
     publishedAt |-> <<"2", "0", "2", "4", "-", "0", "4", "-", "3", "0", "T", "0", "8", ":", "3", "0",
    ":", "0", "0", "Z">>]

NewsResponses ==
    {[raises |-> TRUE, status |-> 0, articles |-> << >>],
     [raises |-> FALSE, status |-> 500, articles |-> <<Article1>>],
     [raises |-> FALSE, status |-> 200, articles |-> << >>],
     [raises |-> FALSE, status |-> 200, articles |-> <<Article1, Article2>>]}

Organic(n) ==
    [title |-> <<"t", n>>, snippet |-> <<"s", n>>, link |-> <<"l", n>>]

SerperResponses ==
    {[raises |-> TRUE, organic |-> << >>],
     [raises |-> FALSE, organic |-> << >>],
     [raises |-> FALSE,
      organic |-> <<Organic("1"), Organic("2"), Organic("3"), Organic("4")>>]}

\* ------------------------------------------------------------- script runs

\* s[1:]
Rest(s) == SubSeq(s, 2, Len(s))

NoRun ==
    [kind |-> "none", section |-> "none", loaded |-> FALSE, before |-> << >>,
     displayed |-> << >>, selected |-> None, translated |-> None,
     wiki |-> None, news |-> None, serper |-> None, docs |-> None,
     included |-> {}, context |-> None, requests |-> << >>,
     answer |-> None, raised |-> FALSE]

Init ==
    /\ memory_file = MEMORY_ABSENT
    /\ in_session = FALSE
    /\ chat_history = << >>
    /\ upload_dir = {}
    /\ last_save = "none"
    /\ run = NoRun

\* No script run is under way: the last one has ended.
Idle == run.kind = "none"

\* The script run ends: what it computed is gone, the session state, the
\* memory file and the upload directory stay.
RunEnds ==
    /\ ~Idle
    /\ run' = NoRun
    /\ UNCHANGED <<memory_file, in_session, chat_history, upload_dir, last_save>>

\* Lines 185-186 as they would be without the seeding of lines 187-190.
ChatHistoryUnseeded ==
    IF in_session THEN chat_history ELSE load_memory(memory_file)

\* st.session_state.chat_history after lines 185-190
ChatHistoryInit ==
    IF in_session THEN chat_history
    ELSE LET loaded == load_memory(memory_file)
         IN  IF loaded = << >> THEN <<DefaultSystemMessage>> ELSE loaded

\* The messages lines 192-193 write to the page.
Rendered(history) == Rest(history)

\* combined_context (lines 207-215)
combined_context(wiki, news, serper, translated, docs) ==
    (IF Truthy(wiki) THEN LabelWikipedia \o wiki \o BlockEnd ELSE << >>)
    \o (IF Truthy(news) THEN LabelNewsAPI \o news \o BlockEnd ELSE << >>)
    \o (IF Truthy(serper) THEN LabelSerper \o serper \o BlockEnd ELSE << >>)
    \o (IF Contains(Lower(docs), Lower(translated))
        THEN LabelDocument \o docs ELSE << >>)

\* A script run in the Chatbot section with no widget event.
OpenChatbot ==
    /\ Idle
    /\ in_session' = TRUE
    /\ chat_history' = ChatHistoryInit
    /\ run' = [NoRun EXCEPT !.kind = "render", !.section = "chat",
                            !.loaded = ~in_session,
                            !.before = ChatHistoryInit,
                            !.displayed = Rendered(ChatHistoryInit)]
    /\ UNCHANGED <<memory_file, upload_dir, last_save>>

\* A new browser session: st.session_state starts empty.
NewSession ==
    /\ Idle
    /\ in_session
    /\ in_session' = FALSE
    /\ chat_history' = << >>
    /\ run' = NoRun
    /\ UNCHANGED <<memory_file, upload_dir, last_save>>

\* The "Clear Chat History" button (lines 142-145), then the rerun in the
\* section the radio shows.
ClearChatHistory(section) ==
    /\ Idle
    /\ in_session' = TRUE
    /\ chat_history' = << >>
    /\ memory_file' = save_memory(<< >>)
    /\ last_save' = "clear"
    /\ run' = [NoRun EXCEPT !.kind = "clear", !.section = section,
                            !.displayed =
                                IF section = "chat" THEN Rendered(<< >>)
                                ELSE << >>]
    /\ UNCHANGED upload_dir

\* The file uploader (lines 147-154), then the rerun.
UploadFile(f, section) ==
    /\ Idle
    /\ f.name \notin upload_dir
    /\ upload_dir' = upload_dir \cup {f.name}
    /\ IF section = "chat"
       THEN /\ in_session' = TRUE
            /\ chat_history' = ChatHistoryInit
            /\ run' = [NoRun EXCEPT !.kind = "upload", !.section = section,
                                    !.loaded = ~in_session,
                                    !.before = ChatHistoryInit,
                                    !.displayed = Rendered(ChatHistoryInit)]
       ELSE /\ run' = [NoRun EXCEPT !.kind = "upload", !.section = section]
            /\ UNCHANGED <<in_session, chat_history>>
    /\ UNCHANGED <<memory_file, last_save>>

\* The names of the files whose text get_all_documents returns.
AllDocumentNames(dir) == {name \in dir : EndsWith(name, ExtTxt) \/ EndsWith(name, ExtPdf)}

\* A script run in the Chatbot section with a chat input (lines 182-221),
\* for every reply of the backend and of the three lookups.
ChatTurn(chat_input) ==
    \E translated \in {translate_to_english(chat_input, r) :
                          r \in TranslationReplies(chat_input)} :
    \E wiki \in {get_wikipedia_summary(translated, r) : r \in WikiResponses},
       news \in {get_newsapi_headlines(translated, r) : r \in NewsResponses},
       serper \in {get_serper_results(translated, r) : r \in SerperResponses},
       reply \in GenerationReplies :
        LET before == ChatHistoryInit
            asked == Append(before, [role |-> RoleUser, content |-> chat_input])
            docs == get_all_documents(upload_dir)
            context == Strip(combined_context(wiki, news, serper, translated,
                                              docs.value))
            g == ask_groq(translated, context, reply)
            answered ==
                Append(asked, [role |-> RoleAssistant, content |-> g.answer])
            seen == [NoRun EXCEPT !.kind = "turn", !.section = "chat",
                                  !.loaded = ~in_session, !.before = before,
                                  !.displayed = Rendered(before),
                                  !.translated = translated, !.wiki = wiki,
                                  !.news = news, !.serper = serper]
        IN  /\ Idle
            /\ Len(before) + 2 <= MaxHistory
            /\ in_session' = TRUE
            /\ IF docs.raised
               THEN /\ chat_history' = asked
                    /\ run' = [seen EXCEPT !.raised = TRUE]
                    /\ UNCHANGED <<memory_file, last_save>>
               ELSE /\ chat_history' = answered
                    /\ memory_file' = save_memory(answered)
                    /\ last_save' = "turn"
                    /\ run' = [seen EXCEPT
                                  !.docs = docs.value,
                                  !.included =
                                      IF Contains(Lower(docs.value),
                                                  Lower(translated))
                                      THEN AllDocumentNames(upload_dir)
                                      ELSE {},
                                  !.context = context,
                                  !.requests = <<g.messages>>,
                                  !.answer = g.answer]
            /\ UNCHANGED upload_dir

\* A script run in the Document Q&A section with a question (lines
\* 162-180), for every reply of the backend.
DocumentQA(question, selected) ==
    \E translated \in {translate_to_english(question, r) :
                          r \in TranslationReplies(question)},
       reply \in GenerationReplies :
        LET files == doc_files(upload_dir)
            all_docs ==
                [k \in 1..Len(files) |-> get_document_context(files[k])]
            Matches(d) == re_search(Prefix(translated, 40), d.value)
            matching_docs == SelectSeq(all_docs, Matches)
            one == get_document_context(selected)
            raised == IF selected = SelectAll
                      THEN \E k \in 1..Len(files) : all_docs[k].raised
                      ELSE one.raised
            context ==
                IF selected = SelectAll
                THEN Join(BlockEnd, [k \in 1..Len(matching_docs) |->
                                         matching_docs[k].value])
                ELSE one.value
            g == ask_groq(translated, context, reply)
            seen == [NoRun EXCEPT !.kind = "qa", !.section = "qa",
                                  !.selected = selected,
                                  !.translated = translated]
        IN  /\ Idle
            /\ \/ selected = SelectAll
               \/ \E k \in 1..Len(files) : files[k] = selected
            /\ IF raised
               THEN run' = [seen EXCEPT !.raised = TRUE]
               ELSE run' = [seen EXCEPT
                               !.included =
                                   IF selected = SelectAll
                                   THEN {files[k] :
                                           k \in {j \in 1..Len(files) :
                                                     Matches(all_docs[j])}}
                                   ELSE {selected},
                               !.context = context,
                               !.requests = <<g.messages>>,
                               !.answer = g.answer]
            /\ UNCHANGED <<memory_file, in_session, chat_history, upload_dir,
                           last_save>>

Sections == {"chat", "qa"}

Next ==
    \/ OpenChatbot
    \/ NewSession
    \/ \E section \in Sections : ClearChatHistory(section)
    \/ \E f \in Files, section \in Sections : UploadFile(f, section)
    \/ \E chat_input \in ChatInputs : ChatTurn(chat_input)
    \/ \E question \in Questions,
          selected \in {SelectAll} \cup {f.name : f \in Files} :
           DocumentQA(question, selected)
    \/ RunEnds

Spec == Init /\ [][Next]_vars

\* ------------------------------------------------- persistence on its own

PersistRoles == {RoleSystem, RoleUser, RoleAssistant}

PersistContents ==
    {<< >>, <<"h", "i">>, <<"s", "a", "y", " ", "\"", "a", "\\", "b", "\"", "\n", "\\", "t", "n", "e", "x",
    "t">>, NoResponse,
     <<"{", "\"", "r", "o", "l", "e", "\"", ":", " ", "\"", "x", "\"", "}", ",", " ", "[",
    "\\", "u", "2", "6", "a", "0", "]">>}

PersistMessages == [role : PersistRoles, content : PersistContents]

Conversations == UNION {[1..n -> PersistMessages] : n \in 0..MaxConvLen}

InitPersist ==
    /\ chat_history \in Conversations
    /\ memory_file \in {MEMORY_ABSENT,
                        [exists |-> TRUE,
                         text |-> json_dump(<<DefaultSystemMessage>>)]}
    /\ in_session = TRUE
    /\ upload_dir = {}
    /\ last_save = "none"
    /\ run = NoRun

\* save_memory(chat_history)
Persist ==
    /\ memory_file' = save_memory(chat_history)
    /\ last_save' = "persist"
    /\ run' = [NoRun EXCEPT !.kind = "persist", !.before = chat_history]
    /\ UNCHANGED <<in_session, chat_history, upload_dir>>

\* chat_history = load_memory()
Load ==
    /\ chat_history' = load_memory(memory_file)
    /\ run' = [NoRun EXCEPT !.kind = "load", !.before = chat_history]
    /\ UNCHANGED <<memory_file, in_session, upload_dir, last_save>>

NextPersist == Persist \/ Load

SpecPersist == InitPersist /\ [][NextPersist]_vars

\* ----------------------------------------------------------------- claims

\* C1: in every state of a chat session the in-memory Conversation is
\* non-empty and its first Message has role system.
ConversationStartsWithSystem ==
    in_session =>
        /\ Len(chat_history) >= 1
        /\ chat_history[1].role = RoleSystem

\* C2: every chat turn that starts extends the Conversation by exactly two
\* Messages, the user's input and then an assistant's reply, whatever the
\* lookups and the generation call do; it changes no earlier Message, and
\* within a session only the clear operation shortens the Conversation.
TurnAppendsUserThenAssistant ==
    [][/\ run'.kind = "turn" =>
            /\ in_session => run'.before = chat_history
            /\ Len(chat_history') = Len(run'.before) + 2
            /\ SubSeq(chat_history', 1, Len(run'.before)) = run'.before
            /\ chat_history'[Len(run'.before) + 1].role = RoleUser
            /\ chat_history'[Len(run'.before) + 2].role = RoleAssistant
       /\ (in_session /\ in_session' /\ Len(chat_history') < Len(chat_history))
              => run'.kind = "clear"]_vars

\* C3: clear persists the reset Conversation at once, and the load that
\* follows a clear (read the store, seed the system Message when the store
\* is absent or empty) gives exactly one Message, of role system.
ClearThenLoadGivesSystemOnly ==
    /\ run.kind = "clear" =>
           /\ memory_file.exists
           /\ load_memory(memory_file) = chat_history
    /\ (last_save = "clear" /\ run.loaded) =>
           /\ Len(run.before) = 1
           /\ run.before[1].role = RoleSystem

ClearThenLoadReached ==
    /\ last_save = "clear"
    /\ run.kind = "render"
    /\ run.loaded
    /\ memory_file.exists

\* The document lookup's result in a chat turn: the documents' text when
\* the query matches it, absent otherwise.
DocumentResult ==
    IF Contains(Lower(run.docs), Lower(run.translated)) THEN run.docs
    ELSE None

LabelledBlock(label, result, end) ==
    IF Truthy(result) THEN label \o result \o end ELSE << >>

\* C4: in a chat turn the assembled context holds exactly the present
\* results, each after its label, in the order Wikipedia, News, Web,
\* Documents; an absent (None or empty) result gives neither label nor
\* body, and the context is empty when all four are absent.
ContextHoldsExactlyPresentResults ==
    (run.kind = "turn" /\ ~run.raised) =>
        run.context =
            Strip(LabelledBlock(LabelWikipedia, run.wiki, BlockEnd)
                  \o LabelledBlock(LabelNewsAPI, run.news, BlockEnd)
                  \o LabelledBlock(LabelSerper, run.serper, BlockEnd)
                  \o LabelledBlock(LabelDocument, DocumentResult, << >>))

\* The length of the context text inside the user message of a request.
ContextLengthIn(content) ==
    Len(content) - Len(ContextHeader) - Len(QuestionHeader)
    - Len(run.translated)

\* C5: in every generation request, from a chat turn or from Document Q&A,
\* the context text in the prompt is the start of the assembled context and
\* at most MAX_DOC_CHARS long; an over-long context is cut, the request is
\* still made.
ContextWithinBudget ==
    (run.kind \in {"turn", "qa"} /\ ~run.raised) =>
        /\ Len(run.requests) = 1
        /\ LET content == run.requests[1][2].content
           IN  IF Truthy(run.context)
               THEN /\ ContextLengthIn(content) <= MAX_DOC_CHARS
                    /\ ContextLengthIn(content) =
                           Len(Prefix(run.context, MAX_DOC_CHARS))
                    /\ SubSeq(content, Len(ContextHeader) + 1,
                              Len(ContextHeader) + ContextLengthIn(content))
                           = Prefix(run.context, ContextLengthIn(content))
               ELSE content = run.translated

OverlongContextInTurn ==
    /\ run.kind = "turn"
    /\ Len(run.requests) = 1
    /\ Len(run.context) > MAX_DOC_CHARS
    /\ Len(run.requests[1][2].content) < Len(run.context)

\* C6: no chat turn is aborted by a lookup (encyclopedia, news, web search
\* or stored documents) that fails or finds nothing: the generation call is
\* made exactly once in the turn, and an answer comes back.
TurnAlwaysGeneratesOnce ==
    run.kind = "turn" =>
        /\ ~run.raised
        /\ Len(run.requests) = 1
        /\ run.answer # None

\* C7: where the context is built from all stored documents by keyword
\* matching (a chat turn, Document Q&A with "All"), a document's text is in
\* the context exactly when that document contains the first 40 characters
\* of the normalized query, compared without case.
DocumentIncludedIffItMatches ==
    (/\ ~run.raised
     /\ \/ run.kind = "turn"
        \/ run.kind = "qa" /\ run.selected = SelectAll) =>
        \A name \in AllDocumentNames(upload_dir) :
            name \in run.included <=>
                Contains(Lower(get_document_context(name).value),
                         Lower(Prefix(run.translated, 40)))

\* C8: in every chat turn the Conversation's first (system) Message is
\* among the messages sent to the generation backend, and no render of the
\* chat shows a system Message.
SystemMessageSentNotShown ==
    /\ (run.kind = "turn" /\ ~run.raised) =>
           /\ Len(run.before) >= 1
           /\ run.before[1].role = RoleSystem
           /\ \E i \in 1..Len(run.requests[1]) :
                  run.requests[1][i] = run.before[1]
    /\ \A j \in 1..Len(run.displayed) : run.displayed[j].role # RoleSystem

\* C9: persisting replaces the whole store, persisting the same
\* Conversation again leaves the store as it is, and a load after a persist
\* returns the Conversation persisted: same length, order, roles, contents.
PersistIdempotentRoundTrip ==
    [][/\ run'.kind = "persist" =>
            /\ memory_file'.exists
            /\ load_memory(memory_file') = chat_history
       /\ (run.kind = "persist" /\ run'.kind = "persist") =>
              memory_file' = memory_file
       /\ (run.kind = "persist" /\ run'.kind = "load") =>
              /\ chat_history' = run.before
              /\ chat_history' = chat_history]_vars

PersistedConversationLoaded ==
    /\ run.kind = "load"
    /\ last_save = "persist"
    /\ Len(chat_history) = 2
    /\ chat_history[1].content = NoResponse
    /\ \E i \in 1..Len(chat_history[2].content) :
           chat_history[2].content[i] = "\\"

\* C10: at the end of every chat turn and right after every clear the
\* store holds exactly the in-memory Conversation, also when a lookup of
\* the turn failed.
StoreEqualsHistoryAfterTurnOrClear ==
    run.kind \in {"turn", "clear"} =>
        /\ memory_file.exists
        /\ load_memory(memory_file) = chat_history

=============================================================================
